---- MODULE Spec2Model ----
(***************************************************************************)
(* Water-quality monitoring dashboard (React front end).                   *)
(*                                                                         *)
(* Several state machines are modelled, each with its own specification:   *)
(*   SpecStatus  the threshold classifiers of RealtimeData (pure)          *)
(*   SpecFeed    the App component: realtime subscription, reading         *)
(*               sequence, latest reading and the /predict client          *)
(*   SpecTabs    the tabbed App with the CorrosionRiskAssessment and       *)
(*               WaterQualityClassification components: 30 s polling,      *)
(*               simulation requests, loading / error state                *)
(*   SpecApp     SpecFeed and SpecTabs together, for the tabbed App        *)
(*   SpecChart   DataVisualizations: the series built from a bundle        *)
(*   SpecSeries  SpecFeed of the tabbed App with DataVisualizations        *)
(*               rendered after every state change                         *)
(*   SpecExport  downloadData: the CSV text built from the readings        *)
(*   SpecSim     CorrosionRiskAssessment: the simulated sequence           *)
(*   SpecRisk    CorrosionRiskAssessment: getRiskFactors (pure)            *)
(*                                                                         *)
(* Numeric sensor values are fixed-point integers in tenths (6.5 -> 65).   *)
(***************************************************************************)
EXTENDS Integers, Sequences, FiniteSets, TLC

VARIABLES
  \* --- SpecStatus
  param,          \* which classifier is applied
  value,          \* its numeric input, in tenths
  result,         \* the {status, color} object it returned
  \* --- SpecFeed (App)
  variant,        \* "tabbed" (frontend/src/App.jsx:132) or "untabbed" (:1053)
  mounted,        \* the App component is mounted
  subscribed,     \* number of open onValue listeners
  pendingEvent,   \* a value event is scheduled for the listener
  store,          \* remote collection sensor_data: set of child records
  sensorData,     \* useState([])
  latestData,     \* useState(null)
  predictions,    \* useState(null)
  error,          \* useState(null)
  isLoading,      \* useState(false) (untabbed variant only)
  requests,       \* the /predict requests issued so far, each "pending" or
                  \* the outcome of its response
  \* --- SpecTabs (components)
  activeTab,      \* useState('realtime')
  comp,           \* per component: its React state
  timer,          \* per component: number of running setInterval timers
  reqs,           \* per component: the requests it issued so far
  \* --- SpecChart (DataVisualizations)
  bundle,         \* the predictions state: the body of a /predict response
  clean,          \* const cleanPredictions
  predicted,      \* const predictedData, or the exception thrown for it
  realData,       \* const realData
  \* --- SpecExport (downloadData)
  fetched,        \* the children get(sensorRef) returned, in key order
  blob,           \* new Blob([csvContent]), handed to the download link
  \* --- SpecSim (CorrosionRiskAssessment)
  sequence,         \* useState(Array(10).fill({...}))
  selectedTimeStep, \* useState(9)
  simulatedParams,  \* useState({ph: 7, ...})
  sent,             \* the body of the last POST /simulate-corrosion
  edits,            \* number of parameter edits so far (the clock they read)
  \* --- SpecRisk (getRiskFactors)
  riskParams,       \* the params argument
  factors           \* the array returned

statusVars == <<param, value, result>>
feedVars   == <<variant, mounted, subscribed, pendingEvent, store, sensorData,
                latestData, predictions, error, isLoading, requests>>
tabVars    == <<activeTab, comp, timer, reqs>>
chartVars  == <<bundle, clean, predicted, realData>>
exportVars == <<fetched, blob>>
simVars    == <<sequence, selectedTimeStep, simulatedParams, sent, edits>>
riskVars   == <<riskParams, factors>>
viewVars   == <<chartVars, exportVars, simVars, riskVars>>
vars       == <<statusVars, feedVars, tabVars, viewVars>>

(***************************************************************************)
(* Bounds of the model.                                                    *)
(***************************************************************************)
\* classifier inputs range over -NegTenths .. MaxTenths (tenths of a unit)
NegTenths == 20
MaxTenths == 9100
\* children of sensor_data have keys 1 .. MaxKeys
MaxKeys == 3
\* their timestamps have seconds 0 .. MaxSec
MaxSec == 2
\* at most MaxRequests /predict requests are issued
MaxRequests == 2
\* the components issue at most MaxPolls requests in all
MaxPolls == 4
\* the App with its components issues at most MaxTotal requests in all
MaxTotal == 2
\* a prediction bundle has at most MaxPoints timestamps
MaxPoints == 2
\* an export reads at most MaxRows readings
MaxRows == 2
\* the sliders of the simulation editor are moved at most MaxEdits times
MaxEdits == 2

(***************************************************************************)
(* Derived status classifiers (RealtimeData).                              *)
(***************************************************************************)
Params == {"ph", "turbidity", "tds", "temperature", "conductivity"}

Inputs == (0 - NegTenths)..MaxTenths

NoResult == [status |-> "none", color |-> "none"]

St(s, c) == [status |-> s, color |-> c]

getPhStatus(ph) ==
  IF ph < 50 THEN St("Acidic", "text-red-600")
  ELSE IF ph < 65 /\ ph > 50 THEN St("Slightly Acidic", "text-orange-500")
  ELSE IF ph > 65 /\ ph < 75 THEN St("Neutral", "text-green-600")
  ELSE IF ph < 90 /\ ph > 75 THEN St("Slightly Basic", "text-blue-500")
  ELSE St("Basic", "text-purple-600")

getTurbidityStatus(turbidity) ==
  IF turbidity < 10 THEN St("Excellent", "text-green-600")
  ELSE IF turbidity < 50 THEN St("Good", "text-blue-500")
  ELSE IF turbidity < 100 THEN St("Fair", "text-orange-500")
  ELSE St("Poor", "text-red-600")

getTdsStatus(tds) ==
  IF tds < 3000 THEN St("Excellent", "text-green-600")
  ELSE IF tds < 6000 THEN St("Good", "text-blue-500")
  ELSE IF tds < 9000 THEN St("Fair", "text-orange-500")
  ELSE St("Poor", "text-red-600")

getTemperatureStatus(temp) ==
  IF temp < 200 THEN St("Cold", "text-blue-600")
  ELSE IF temp < 250 THEN St("Cool", "text-blue-600")
  ELSE IF temp > 250 /\ temp < 300 THEN St("Normal", "text-green-600")
  ELSE IF temp > 300 /\ temp < 350 THEN St("Warm", "text-orange-500")
  ELSE St("Hot", "text-red-600")

getConductivityStatus(conductivity) ==
  IF conductivity < 2000 THEN St("Low", "text-blue-500")
  ELSE IF conductivity < 8000 THEN St("Normal", "text-green-600")
  ELSE St("High", "text-red-600")

\* getStatus rejecting values below zero
getStatusChecked(p, v) ==
  IF v < 0 THEN St("Invalid", "text-gray-500")
  ELSE CASE p = "ph" -> getPhStatus(v)
         [] p = "turbidity" -> getTurbidityStatus(v)
         [] p = "tds" -> getTdsStatus(v)
         [] p = "temperature" -> getTemperatureStatus(v)
         [] p = "conductivity" -> getConductivityStatus(v)

\* the getStatus prop a Dial is given for each parameter
getStatus(p, v) ==
  CASE p = "ph" -> getPhStatus(v)
    [] p = "turbidity" -> getTurbidityStatus(v)
    [] p = "tds" -> getTdsStatus(v)
    [] p = "temperature" -> getTemperatureStatus(v)
    [] p = "conductivity" -> getConductivityStatus(v)

StatusIdle ==
  /\ param = "ph"
  /\ value = 0
  /\ result = NoResult

StatusInit ==
  /\ param \in Params
  /\ value \in Inputs
  /\ result = NoResult

\* a Dial is rendered for the latest reading: const status = getStatus(value)
Classify ==
  /\ result = NoResult
  /\ result' = getStatus(param, value)
  /\ UNCHANGED <<param, value>>

(***************************************************************************)
(* The realtime store and its query.                                       *)
(***************************************************************************)
\* query(sensorRef, orderByChild('timestamp'), limitToLast(100))
LimitToLast == 100

Keys == 1..MaxKeys

\* an ISO-8601 timestamp string of the one format the sensors write, by its
\* seconds field
Timestamps == [sec : 0..MaxSec]

\* new Date(timestamp), as the number of milliseconds it converts to in a
\* subtraction
DateParse(ts) == ts.sec * 1000

\* the order of the timestamp strings (orderByChild compares the strings)
TsBefore(a, b) == a.sec < b.sec

\* a child of sensor_data: its key and its value's timestamp
Children == [key : Keys, timestamp : Timestamps]

\* orderByChild('timestamp'): by the child value, then by key
ChildBefore(a, b) ==
  \/ TsBefore(a.timestamp, b.timestamp)
  \/ (a.timestamp = b.timestamp /\ a.key < b.key)

RECURSIVE Ordered(_)
\* the children of a set in query order
Ordered(S) ==
  IF S = {} THEN <<>>
  ELSE LET last == CHOOSE c \in S : \A d \in S \ {c} : ChildBefore(d, c)
       IN  Append(Ordered(S \ {last}), last)

\* the snapshot handed to the listener: the last LimitToLast children
Snapshot(S) ==
  LET all == Ordered(S)
      n == Len(all)
  IN  IF n <= LimitToLast THEN all ELSE SubSeq(all, n - LimitToLast + 1, n)

(***************************************************************************)
(* App: the subscription effect.                                           *)
(***************************************************************************)
Variants == {"tabbed", "untabbed"}

Undefined == [kind |-> "undefined"]
Null == [kind |-> "null"]

\* { id: childSnapshot.key, ...childSnapshot.val() }
Reading(c) == [kind |-> "reading", id |-> c.key, timestamp |-> c.timestamp]

\* Compare with the ascending comparator in every variant
CompareAscending(v, a, b) ==
  DateParse(a.timestamp) - DateParse(b.timestamp)

\* the comparator given to data.sort
Compare(v, a, b) ==
  IF v = "tabbed"
  THEN DateParse(b.timestamp) - DateParse(a.timestamp)
  ELSE DateParse(a.timestamp) - DateParse(b.timestamp)

RECURSIVE InsertSorted(_, _, _)
\* x placed behind every element that does not compare greater than it
InsertSorted(v, sorted, x) ==
  IF sorted = <<>> THEN <<x>>
  ELSE LET n == Len(sorted)
       IN  IF Compare(v, sorted[n], x) <= 0
           THEN Append(sorted, x)
           ELSE Append(InsertSorted(v, SubSeq(sorted, 1, n - 1), x), sorted[n])

RECURSIVE Sort(_, _)
\* Array.prototype.sort with the comparator: a stable sort
Sort(v, data) ==
  IF data = <<>> THEN <<>>
  ELSE LET n == Len(data)
       IN  InsertSorted(v, Sort(v, SubSeq(data, 1, n - 1)), data[n])

\* snapshot.forEach(child => data.push({...}))
Materialize(snapshot) == [i \in 1..Len(snapshot) |-> Reading(snapshot[i])]

\* Latest taking data[0] in every variant
LatestFirst(v, data) ==
  IF data = <<>> THEN Undefined ELSE data[1]

\* Latest guarded by a test of data.length: an empty array leaves the
\* latest reading as it is
LatestKept(v, data) ==
  IF data = <<>> THEN latestData
  ELSE IF v = "tabbed" THEN data[1] ELSE data[Len(data)]

\* data[0] in the tabbed variant, data[data.length - 1] in the untabbed one
Latest(v, data) ==
  IF data = <<>> THEN Undefined
  ELSE IF v = "tabbed" THEN data[1] ELSE data[Len(data)]

\* PublishReadings pushing onto the array published before
PublishReadingsMerging(snapshot) ==
  LET data == Sort(variant, sensorData \o Materialize(snapshot))
  IN  /\ sensorData' = data
      /\ latestData' = Latest(variant, data)

\* the setState calls of the onValue callback
PublishReadings(snapshot) ==
  LET data == Sort(variant, Materialize(snapshot))
  IN  /\ sensorData' = data
      /\ latestData' = Latest(variant, data)

(***************************************************************************)
(* App: the /predict client.                                               *)
(***************************************************************************)
\* the null of the error state
NoError == "null"

GenericError == "Failed to fetch predictions. Please try again later."

\* the message of the exception fetch() or response.json() throws
TransportError == "Failed to fetch"

\* the `error` field of a response body that has none
Absent == "undefined"

ErrorMessages == {"model unavailable"}

Outcomes == {"ok", "errorBody", "failed"}

\* the parsed body of the response to request r
Body(r, outcome) ==
  [kind |-> "body", req |-> r,
   error |-> IF outcome = "errorBody" THEN "model unavailable" ELSE Absent]

NoBody == [kind |-> "null", req |-> 0, error |-> Absent]

\* if (data.error)
Truthy(x) == x # Absent /\ x # ""

Pending == {r \in 1..Len(requests) : requests[r] = "pending"}

\* ForecastEffect without the test of sensorData.length
ForecastEffectAlways(data) ==
  /\ Len(requests) < MaxRequests
  /\ requests' = Append(requests, "pending")
  /\ isLoading' = IF variant = "untabbed" THEN TRUE ELSE isLoading

\* the forecast effect, run after sensorData changed: the call of
\* fetchPredictions up to its first await
ForecastEffect(data) ==
  IF Len(data) > 0
  THEN /\ Len(requests) < MaxRequests
       /\ requests' = Append(requests, "pending")
       /\ isLoading' = IF variant = "untabbed" THEN TRUE ELSE isLoading
  ELSE UNCHANGED <<requests, isLoading>>

\* fetchPredictionsTabbed with setPredictions(null) added to its catch block
fetchPredictionsTabbedClearing(r, outcome) ==
  /\ IF outcome = "ok" \/ (outcome = "errorBody" /\ ~Truthy(Body(r, outcome).error))
     THEN /\ predictions' = Body(r, outcome)
          /\ error' = NoError
     ELSE /\ error' = GenericError
          /\ predictions' = NoBody
  /\ UNCHANGED isLoading

\* fetchPredictions of the tabbed variants, from the response on
fetchPredictionsTabbed(r, outcome) ==
  /\ IF outcome = "ok" \/ (outcome = "errorBody" /\ ~Truthy(Body(r, outcome).error))
     THEN /\ predictions' = Body(r, outcome)
          /\ error' = NoError
     ELSE /\ error' = GenericError
          /\ UNCHANGED predictions
  /\ UNCHANGED isLoading

\* fetchPredictions of the untabbed variant, from the response on
fetchPredictionsUntabbed(r, outcome) ==
  /\ IF outcome = "failed"
     THEN /\ error' = TransportError
          /\ UNCHANGED predictions
     ELSE /\ predictions' = Body(r, outcome)
          /\ UNCHANGED error
  /\ isLoading' = FALSE

\* fetchPredictions applying a response only when no newer request exists
fetchPredictionsLatestOnly(r, outcome) ==
  IF r < Len(requests)
  THEN UNCHANGED <<predictions, error, isLoading>>
  ELSE IF variant = "tabbed"
       THEN fetchPredictionsTabbed(r, outcome)
       ELSE fetchPredictionsUntabbed(r, outcome)

\* fetchPredictions, from the response on
fetchPredictions(r, outcome) ==
  IF variant = "tabbed"
  THEN fetchPredictionsTabbed(r, outcome)
  ELSE fetchPredictionsUntabbed(r, outcome)

(***************************************************************************)
(* App: the actions.                                                       *)
(***************************************************************************)
\* the onValue callback with the effect that follows its state update
OnValue(snapshot) ==
  /\ PublishReadings(snapshot)
  /\ ForecastEffect(Sort(variant, Materialize(snapshot)))
  /\ UNCHANGED <<predictions, error>>

StoreKeys == {c.key : c \in store}

\* the stores one remote change away
Changes ==
  {store \cup {c} : c \in {d \in Children : d.key \notin StoreKeys}}
    \cup {store \ {c} : c \in store}

\* the first value event of a new listener
InitialValue ==
  /\ subscribed > 0
  /\ pendingEvent
  /\ pendingEvent' = FALSE
  /\ OnValue(Snapshot(store))
  /\ UNCHANGED <<variant, mounted, subscribed, store>>

\* a child of sensor_data is added or removed; the listener, if any, is
\* called with the new snapshot
RemoteChange ==
  \E new \in Changes :
    /\ store' = new
    /\ IF subscribed > 0 /\ ~pendingEvent
       THEN IF mounted
            THEN OnValue(Snapshot(new))
            ELSE UNCHANGED <<sensorData, latestData, predictions, error,
                             isLoading, requests>>
       ELSE UNCHANGED <<sensorData, latestData, predictions, error,
                        isLoading, requests>>
    /\ UNCHANGED <<variant, mounted, subscribed, pendingEvent>>

\* Respond with a failure handler that also resets the readings
RespondResetting ==
  \E r \in Pending, outcome \in Outcomes :
    /\ requests' = [requests EXCEPT ![r] = outcome]
    /\ IF mounted
       THEN fetchPredictions(r, outcome)
       ELSE UNCHANGED <<predictions, error, isLoading>>
    /\ IF outcome = "ok"
       THEN UNCHANGED <<sensorData, latestData>>
       ELSE sensorData' = <<>> /\ latestData' = Null
    /\ UNCHANGED <<variant, mounted, subscribed, pendingEvent, store>>

\* the response of /predict request r arrives (or the request fails)
Respond ==
  \E r \in Pending, outcome \in Outcomes :
    /\ requests' = [requests EXCEPT ![r] = outcome]
    /\ IF mounted
       THEN fetchPredictions(r, outcome)
       ELSE UNCHANGED <<predictions, error, isLoading>>
    /\ UNCHANGED <<variant, mounted, subscribed, pendingEvent, store,
                   sensorData, latestData>>

\* a cleanup that leaves the listener attached
UnsubscribeNever == subscribed' = subscribed

\* the cleanup of the subscription effect: return () => unsubscribe()
Unsubscribe == subscribed' = subscribed - 1

\* the App is torn down: its effects are cleaned up and its state is
\* released (shown as the initial values); requests in flight stay in flight
Unmount ==
  /\ mounted
  /\ mounted' = FALSE
  /\ Unsubscribe
  /\ pendingEvent' = FALSE
  /\ sensorData' = <<>>
  /\ latestData' = Null
  /\ predictions' = NoBody
  /\ error' = NoError
  /\ isLoading' = FALSE
  /\ UNCHANGED <<variant, store, requests>>

FeedIdle ==
  /\ variant = "tabbed"
  /\ mounted = FALSE
  /\ subscribed = 0
  /\ pendingEvent = FALSE
  /\ store = {}
  /\ sensorData = <<>>
  /\ latestData = Null
  /\ predictions = NoBody
  /\ error = NoError
  /\ isLoading = FALSE
  /\ requests = <<>>

\* the App after its first render and its mount effects
FeedInit ==
  /\ variant \in Variants
  /\ mounted = TRUE
  /\ subscribed = 1
  /\ pendingEvent = TRUE
  /\ store = {}
  /\ sensorData = <<>>
  /\ latestData = Null
  /\ predictions = NoBody
  /\ error = NoError
  /\ isLoading = FALSE
  /\ requests = <<>>

TabsIdle ==
  /\ activeTab = "realtime"
  /\ comp = <<>>
  /\ timer = <<>>
  /\ reqs = <<>>

(***************************************************************************)
(* The tabbed App with CorrosionRiskAssessment and                         *)
(* WaterQualityClassification.  Both components have the same polling      *)
(* code; the corrosion one tracks simulationLoading and disables its       *)
(* simulate button meanwhile, the quality one does not.                    *)
(***************************************************************************)
Tabs == {"realtime", "table", "visualizations", "corrosion", "quality"}

Components == {"corrosion", "quality"}

\* the state of a component after useState: riskData / qualityData and
\* simulatedRisk / simulatedQuality hold the id of the request whose
\* response they store, 0 for null
InitialState ==
  [loading |-> TRUE, simulationLoading |-> FALSE, error |-> NoError,
   data |-> 0, simulated |-> 0]

\* {activeTab === c && <Component />}
Shown(c) == activeTab = c

\* a request of component c: a poll (GET /predict-*) or a simulation
\* (POST /simulate-*), whether the component was in Error when it was
\* issued, and where it stands: "pending", "orphan" (in flight, its
\* instance torn down), the outcome of its response, or "ignored" (the
\* response reached a torn-down instance)
Request(kind, st) ==
  [kind |-> kind, state |-> "pending", inError |-> st.error # NoError]

PendingOf(c) == {i \in 1..Len(reqs[c]) : reqs[c][i].state = "pending"}

OrphansOf(c) == {i \in 1..Len(reqs[c]) : reqs[c][i].state = "orphan"}

Issued == Len(reqs["corrosion"]) + Len(reqs["quality"])

\* fetch(...) is called: the request is in flight
Issue(c, kind, st) ==
  /\ Issued < MaxPolls
  /\ reqs' = [reqs EXCEPT ![c] = Append(@, Request(kind, st))]

\* the error message a response leaves: data.error or the exception's
Message(outcome) ==
  IF outcome = "errorBody" THEN "model unavailable" ELSE TransportError

\* fetchCorrosionRisk / fetchQualityData up to the first await, with
\* setLoading(true) added
fetchStartLoading(st) == [st EXCEPT !.loading = TRUE]

\* fetchCorrosionRisk / fetchQualityData up to the first await: no state
\* is set before the request
fetchStart(st) == st

\* fetchDone whose success branch does not call setError(null)
fetchDoneKeepsError(st, i, outcome) ==
  IF outcome = "ok"
  THEN [st EXCEPT !.data = i, !.loading = FALSE]
  ELSE [st EXCEPT !.error = Message(outcome), !.loading = FALSE]

\* fetchCorrosionRisk / fetchQualityData from the response on
fetchDone(st, i, outcome) ==
  IF outcome = "ok"
  THEN [st EXCEPT !.data = i, !.error = NoError, !.loading = FALSE]
  ELSE [st EXCEPT !.error = Message(outcome), !.loading = FALSE]

\* simulateStart without setSimulationLoading(true)
simulateStartUnflagged(c, st) == st

\* simulateCorrosion / simulateQuality up to the first await
simulateStart(c, st) ==
  IF c = "corrosion" THEN [st EXCEPT !.simulationLoading = TRUE] ELSE st

\* simulateDone whose success branch calls setError(null)
simulateDoneClearing(c, st, i, outcome) ==
  LET after == IF outcome = "ok"
               THEN [st EXCEPT !.simulated = i, !.error = NoError]
               ELSE [st EXCEPT !.error = Message(outcome)]
  IN  IF c = "corrosion" THEN [after EXCEPT !.simulationLoading = FALSE]
      ELSE after

\* simulateCorrosion / simulateQuality from the response on
simulateDone(c, st, i, outcome) ==
  LET after == IF outcome = "ok"
               THEN [st EXCEPT !.simulated = i]
               ELSE [st EXCEPT !.error = Message(outcome)]
  IN  IF c = "corrosion" THEN [after EXCEPT !.simulationLoading = FALSE]
      ELSE after

\* the simulate button is rendered (neither the loading nor the error view
\* is returned) and enabled
CanSimulate(c) ==
  /\ Shown(c)
  /\ ~comp[c].loading
  /\ comp[c].error = NoError
  /\ ~comp[c].simulationLoading

\* a cleanup that clears the interval only once the first fetch is over
ClearIntervalAfterLoading(c) ==
  IF comp[c].loading THEN timer[c] ELSE timer[c] - 1

\* the cleanup of the polling effect: return () => clearInterval(interval)
ClearInterval(c) == timer[c] - 1

\* the requests of an instance that is torn down stay in flight
Orphaned(log) ==
  [i \in 1..Len(log) |->
     IF log[i].state = "pending" THEN [log[i] EXCEPT !.state = "orphan"]
     ELSE log[i]]

\* setActiveTab that hides the component of the tab left instead of tearing
\* it down
SetActiveTabHiding ==
  \E t \in Tabs \ {activeTab} :
    /\ activeTab' = t
    /\ t \in Components => Issued < MaxPolls
    /\ comp' = [c \in Components |->
                  IF c = t THEN fetchStart(InitialState) ELSE comp[c]]
    /\ timer' = [c \in Components |-> IF c = t THEN 1 ELSE timer[c]]
    /\ reqs' = [c \in Components |->
                  IF c = t THEN Append(reqs[c], Request("poll", InitialState))
                  ELSE reqs[c]]

\* setActiveTab(t): the component of the tab left is torn down, the one of
\* the tab entered is mounted and runs its polling effect
SetActiveTab ==
  \E t \in Tabs \ {activeTab} :
    /\ activeTab' = t
    /\ t \in Components => Issued < MaxPolls
    /\ comp' = [c \in Components |->
                  IF c = t THEN fetchStart(InitialState)
                  ELSE InitialState]
    /\ timer' = [c \in Components |->
                   IF c = t THEN timer[c] + 1
                   ELSE IF c = activeTab THEN ClearInterval(c)
                   ELSE timer[c]]
    /\ reqs' = [c \in Components |->
                  IF c = t THEN Append(reqs[c], Request("poll", InitialState))
                  ELSE IF c = activeTab THEN Orphaned(reqs[c])
                  ELSE reqs[c]]

\* a tick that skips the poll while a request of the component is in flight
TickWaiting ==
  \E c \in Components :
    /\ timer[c] > 0
    /\ PendingOf(c) = {}
    /\ Issue(c, "poll", comp[c])
    /\ comp' = [comp EXCEPT ![c] = fetchStart(@)]
    /\ UNCHANGED <<activeTab, timer>>

\* the 30 s interval of component c fires
Tick ==
  \E c \in Components :
    /\ timer[c] > 0
    /\ Issue(c, "poll", comp[c])
    /\ comp' = [comp EXCEPT ![c] = fetchStart(@)]
    /\ UNCHANGED <<activeTab, timer>>

\* the simulate button of component c is clicked
Simulate ==
  \E c \in Components :
    /\ CanSimulate(c)
    /\ Issue(c, "simulate", comp[c])
    /\ comp' = [comp EXCEPT ![c] = simulateStart(c, @)]
    /\ UNCHANGED <<activeTab, timer>>

\* the response of a request of the mounted instance arrives
Response ==
  \E c \in Components :
    \E i \in PendingOf(c), outcome \in Outcomes :
      /\ reqs' = [reqs EXCEPT ![c][i].state = outcome]
      /\ comp' = [comp EXCEPT ![c] =
                    IF reqs[c][i].kind = "poll"
                    THEN fetchDone(@, i, outcome)
                    ELSE simulateDone(c, @, i, outcome)]
      /\ UNCHANGED <<activeTab, timer>>

\* the response of a request of a torn-down instance arrives: its setState
\* calls have no effect
OrphanResponse ==
  \E c \in Components :
    \E i \in OrphansOf(c) :
      /\ reqs' = [reqs EXCEPT ![c][i].state = "ignored"]
      /\ UNCHANGED <<activeTab, comp, timer>>

\* the App after its first render: the realtime tab is shown
TabsInit ==
  /\ activeTab = "realtime"
  /\ comp = [c \in Components |-> InitialState]
  /\ timer = [c \in Components |-> 0]
  /\ reqs = [c \in Components |-> <<>>]

(***************************************************************************)
(* DataVisualizations: the charting series built from a prediction bundle. *)
(***************************************************************************)
\* a JSON number, in tenths
Num(n) == [kind |-> "number", n |-> n]

\* the value forecast for parameter p wherever the bundle has a number
Forecast(p) ==
  CASE p = "ph" -> 65
    [] p = "turbidity" -> 12
    [] p = "tds" -> 3000
    [] p = "temperature" -> 270
    [] p = "conductivity" -> 5000

\* the body of a /predict response: n timestamps, and for each parameter
\* it has a series of n numbers and nulls
Bundle(present, n, nulls) ==
  [timestamps |-> [i \in 1..n |-> [sec |-> i]],
   predictions |->
     [p \in present |->
        [i \in 1..n |-> IF i \in nulls[p] THEN Null ELSE Num(Forecast(p))]]]

NotBuilt == [kind |-> "none"]

\* the exception of reading a property of undefined
TypeError == [kind |-> "TypeError"]

IsNotNull(v) == v # Null

\* cleanPredictions dropping the nulls of each series
cleanPredictionsFiltering(b) ==
  [timestamps |-> b.timestamps,
   predictions |->
     [key \in DOMAIN b.predictions |->
        SelectSeq(b.predictions[key], IsNotNull)]]

\* { ...predictions, predictions: Object.fromEntries(
\*     Object.entries(predictions.predictions).map(([key, values]) =>
\*       [key, values.map(v => v === null ? undefined : v)])) }
cleanPredictions(b) ==
  [timestamps |-> b.timestamps,
   predictions |->
     [key \in DOMAIN b.predictions |->
        [i \in 1..Len(b.predictions[key]) |->
           IF b.predictions[key][i] = Null THEN Undefined
           ELSE b.predictions[key][i]]]]

\* values[i] of an array
At(values, i) == IF i \in DOMAIN values THEN values[i] ELSE Undefined

\* .sort((a, b) => new Date(a.timestamp) - new Date(b.timestamp))
SortAscending(data) == Sort("untabbed", data)

\* cleanPredictions.timestamps.map((timestamp, i) => ({timestamp,
\*   ph: cleanPredictions.predictions.ph[i], ...})).sort(...): the callback
\* reads [i] of each of the five series, and throws on a series that the
\* bundle does not have
predictedData(c) ==
  LET n == Len(c.timestamps)
      Row(i) ==
        [timestamp |-> c.timestamps[i],
         ph |-> At(c.predictions["ph"], i),
         turbidity |-> At(c.predictions["turbidity"], i),
         tds |-> At(c.predictions["tds"], i),
         temperature |-> At(c.predictions["temperature"], i),
         conductivity |-> At(c.predictions["conductivity"], i)]
  IN  IF n > 0 /\ ~(Params \subseteq DOMAIN c.predictions)
      THEN TypeError
      ELSE [kind |-> "rows", rows |-> SortAscending([i \in 1..n |-> Row(i)])]

\* const realData: a sorted copy in the tabbed variants, sensorData itself
\* in the untabbed one
RealData ==
  [kind |-> "rows",
   rows |-> IF variant = "tabbed" THEN SortAscending(sensorData)
            ELSE sensorData]

\* RenderVisualizations sorting sensorData itself: sensorData.sort(...)
RenderVisualizationsInPlace ==
  /\ error = NoError
  /\ bundle # Null
  /\ clean = NotBuilt
  /\ clean' = cleanPredictions(bundle)
  /\ realData' = RealData
  /\ sensorData' = RealData.rows
  /\ predicted' = predictedData(cleanPredictions(bundle))
  /\ UNCHANGED bundle

\* DataVisualizations is rendered: it returns the error view if error is
\* set and the spinner if no bundle is stored, and builds its series
\* otherwise
RenderVisualizations ==
  /\ error = NoError
  /\ bundle # Null
  /\ clean = NotBuilt
  /\ clean' = cleanPredictions(bundle)
  /\ realData' = RealData
  /\ predicted' = predictedData(cleanPredictions(bundle))
  /\ UNCHANGED <<bundle, sensorData>>

ChartIdle ==
  /\ bundle = Null
  /\ clean = NotBuilt
  /\ predicted = NotBuilt
  /\ realData = NotBuilt

\* the content of the body of an answered /predict request: one timestamp
\* and a number for each parameter
StoredBundle == Bundle(Params, 1, [p \in Params |-> {}])

\* a state change of the App: DataVisualizations is to be rendered again,
\* with the bundle that is stored then
Rerender ==
  /\ bundle' = IF predictions' = NoBody THEN Null ELSE StoredBundle
  /\ clean' = NotBuilt
  /\ predicted' = NotBuilt
  /\ realData' = NotBuilt

\* a bundle of at most MaxPoints timestamps has been stored
ChartInit ==
  /\ \E present \in SUBSET Params, n \in 0..MaxPoints :
       \E nulls \in [present -> SUBSET (1..n)] :
         bundle = Bundle(present, n, nulls)
  /\ clean = NotBuilt
  /\ predicted = NotBuilt
  /\ realData = NotBuilt

(***************************************************************************)
(* downloadData: the CSV text of an export.  The sensor values of this     *)
(* part are fixed-point integers in thousandths (6.547 -> 6547), so that   *)
(* toFixed(2) has digits to round away.  The text is a sequence of tokens: *)
(* literal strings, timestamp strings and decimal numerals.                *)
(***************************************************************************)
\* the sensor values of a stored reading; none lies halfway between two
\* hundredths, where toFixed depends on the binary representation
Samples ==
  {[ph |-> 7000, turbidity |-> 1250, tds |-> 300000, temperature |-> 27004,
    conductivity |-> 500996],
   [ph |-> 6547, turbidity |-> 4, tds |-> 123456, temperature |-> 9999,
    conductivity |-> 80001],
   [ph |-> 14000, turbidity |-> 999, tds |-> 0, temperature |-> 31416,
    conductivity |-> 1499994]}

\* childSnapshot.val() of a child of sensor_data
Stored(ts, s) ==
  [timestamp |-> ts, ph |-> s.ph, turbidity |-> s.turbidity, tds |-> s.tds,
   temperature |-> s.temperature, conductivity |-> s.conductivity]

StoredReadings == {Stored(ts, s) : ts \in Timestamps, s \in Samples}

\* a string literal of the text
Text(s) == [kind |-> "text", text |-> s, whole |-> 0, cents |-> 0]

\* the timestamp string of a reading, as stored
Stamp(ts) == [kind |-> "timestamp", text |-> "", whole |-> ts.sec, cents |-> 0]

\* the numeral "<whole>.<cents>" with two digits after the point
Decimal(whole, cents) ==
  [kind |-> "decimal", text |-> "", whole |-> whole, cents |-> cents]

Comma == Text(",")

Newline == Text("\n")

\* toFixed keeping one digit after the point
toFixedOneDigit(v) ==
  LET tenths == (v + 50) \div 100
  IN  Decimal(tenths \div 10, (tenths % 10) * 10)

\* Number.prototype.toFixed(2) of a non-negative value: the nearest
\* hundredth
toFixed(v) ==
  LET hundredths == (v + 5) \div 10
  IN  Decimal(hundredths \div 100, hundredths % 100)

RECURSIVE Join(_, _)
\* Array.prototype.join: the parts with the separator between them
Join(parts, sep) ==
  IF parts = <<>> THEN <<>>
  ELSE IF Len(parts) = 1 THEN parts[1]
  ELSE parts[1] \o <<sep>> \o Join(Tail(parts), sep)

headers ==
  <<"Timestamp", "pH", "Turbidity (NTU)", "TDS (ppm)", "Temperature (°C)",
    "Conductivity (μS/cm)">>

\* data.sort((a, b) => new Date(b.timestamp) - new Date(a.timestamp)), the
\* comparator of the tabbed subscription
ExportSort(data) == Sort("tabbed", data)

\* data.map(reading => [reading.timestamp, reading.ph.toFixed(2), ...])
csvData(data) ==
  [i \in 1..Len(data) |->
     <<Stamp(data[i].timestamp), toFixed(data[i].ph),
       toFixed(data[i].turbidity), toFixed(data[i].tds),
       toFixed(data[i].temperature), toFixed(data[i].conductivity)>>]

\* the cells of a row as one-token parts
Cells(row) == [j \in 1..Len(row) |-> <<row[j]>>]

\* csvContent with a newline appended to every line
csvContentTerminated(data) ==
  LET lines == <<Join([j \in 1..Len(headers) |-> <<Text(headers[j])>>], Comma)>>
                 \o [i \in 1..Len(data) |-> Join(Cells(csvData(data)[i]), Comma)]
  IN  Join(lines, Newline) \o <<Newline>>

\* [headers.join(','), ...csvData.map(row => row.join(','))].join('\n')
csvContent(data) ==
  LET lines == <<Join([j \in 1..Len(headers) |-> <<Text(headers[j])>>], Comma)>>
                 \o [i \in 1..Len(data) |-> Join(Cells(csvData(data)[i]), Comma)]
  IN  Join(lines, Newline)

\* the Download Data button is clicked and get(sensorRef) has resolved:
\* the blob handed to the download link
DownloadData ==
  /\ blob = NotBuilt
  /\ blob' = [kind |-> "text/csv;charset=utf-8;",
              text |-> csvContent(ExportSort(fetched))]
  /\ UNCHANGED fetched

ExportIdle ==
  /\ fetched = <<>>
  /\ blob = NotBuilt

\* sensor_data holds at most MaxRows readings
ExportInit ==
  /\ fetched \in UNION {[1..n -> StoredReadings] : n \in 0..MaxRows}
  /\ blob = NotBuilt

(***************************************************************************)
(* CorrosionRiskAssessment: the simulated sequence and its editor.         *)
(***************************************************************************)
\* Array(10)
SequenceLength == 10

\* the useState initial value of simulatedParams, in tenths
InitialParams ==
  [ph |-> 70, turbidity |-> 10, tds |-> 3000, temperature |-> 270,
   conductivity |-> 5000]

\* the object the initial sequence is filled with; its timestamp is the
\* time of the first render, 0
InitialEntry ==
  [ph |-> 70, turbidity |-> 10, tds |-> 3000, temperature |-> 270,
   conductivity |-> 5000, timestamp |-> 0]

\* e.target.value of a range input: a decimal numeral with at most one
\* digit after the point
Numeral(whole, tenth) == [whole |-> whole, tenth |-> tenth]

\* the numerals the slider of parameter p is moved to: its min and its max
SliderValues(p) ==
  CASE p = "ph" -> {Numeral(0, 0), Numeral(14, 0)}
    [] p = "turbidity" -> {Numeral(0, 0), Numeral(10, 0)}
    [] p = "tds" -> {Numeral(0, 0), Numeral(1000, 0)}
    [] p = "temperature" -> {Numeral(0, 0), Numeral(100, 0)}
    [] p = "conductivity" -> {Numeral(0, 0), Numeral(1500, 0)}

\* parseFloat of such a numeral, in tenths
parseFloat(s) == s.whole * 10 + s.tenth

\* JSON.stringify of an array of objects with finite numbers: every own
\* property of every element, in order
Stringify(array) ==
  [kind |-> "json",
   body |-> [i \in 1..Len(array) |->
               [k \in DOMAIN array[i] |-> array[i][k]]]]

NotSent == [kind |-> "none"]

\* new Date().toISOString() in the edit after `edits` earlier ones
Now == edits + 1

\* handleParameterChange pushing the edited entry onto the sequence
handleParameterChangeAppending(p, v) ==
  /\ edits < MaxEdits
  /\ edits' = edits + 1
  /\ simulatedParams' = [k \in DOMAIN simulatedParams |->
                           IF k = p THEN parseFloat(v) ELSE simulatedParams[k]]
  /\ sequence' = Append(sequence,
                        [k \in DOMAIN sequence[selectedTimeStep + 1] |->
                           IF k = p THEN parseFloat(v)
                           ELSE IF k = "timestamp" THEN Now
                           ELSE sequence[selectedTimeStep + 1][k]])
  /\ UNCHANGED <<selectedTimeStep, sent>>

\* handleParameterChange assigning to the selected object in place: every
\* index that holds the same object shows the edit
handleParameterChangeInPlace(p, v) ==
  /\ edits < MaxEdits
  /\ edits' = edits + 1
  /\ simulatedParams' = [k \in DOMAIN simulatedParams |->
                           IF k = p THEN parseFloat(v) ELSE simulatedParams[k]]
  /\ sequence' = [i \in 1..Len(sequence) |->
                    IF sequence[i] = sequence[selectedTimeStep + 1]
                    THEN [k \in DOMAIN sequence[i] |->
                            IF k = p THEN parseFloat(v)
                            ELSE IF k = "timestamp" THEN Now
                            ELSE sequence[i][k]]
                    ELSE sequence[i]]
  /\ UNCHANGED <<selectedTimeStep, sent>>

\* handleParameterChange(param, value): setSimulatedParams(prev =>
\* ({...prev, [param]: parseFloat(value)})) and the replacement of the
\* selected entry in a copy of the sequence
handleParameterChange(p, v) ==
  /\ edits < MaxEdits
  /\ edits' = edits + 1
  /\ simulatedParams' = [k \in DOMAIN simulatedParams |->
                           IF k = p THEN parseFloat(v) ELSE simulatedParams[k]]
  /\ sequence' = [sequence EXCEPT ![selectedTimeStep + 1] =
                    [k \in DOMAIN @ |->
                       IF k = p THEN parseFloat(v)
                       ELSE IF k = "timestamp" THEN Now
                       ELSE @[k]]]
  /\ UNCHANGED <<selectedTimeStep, sent>>

\* handleTimeStepChange without setSimulatedParams
handleTimeStepChangeKeeping(step) ==
  /\ selectedTimeStep' = step
  /\ UNCHANGED <<simulatedParams, sequence, sent, edits>>

\* handleTimeStepChange(step)
handleTimeStepChange(step) ==
  /\ selectedTimeStep' = step
  /\ simulatedParams' = sequence[step + 1]
  /\ UNCHANGED <<sequence, sent, edits>>

\* simulateCorrosion up to the first await: the request body
simulateCorrosion ==
  /\ sent' = Stringify(sequence)
  /\ UNCHANGED <<sequence, selectedTimeStep, simulatedParams, edits>>

\* a slider of the editor is moved
ParameterChange ==
  \E p \in Params : \E v \in SliderValues(p) : handleParameterChange(p, v)

\* the time-step buttons that are clicked: the first, a middle and the last
\* of the buttons sequence.map renders, one per index
Steps == {0, Len(sequence) \div 2, Len(sequence) - 1}

\* a time-step button is clicked
TimeStepChange ==
  \E step \in Steps :
    /\ step # selectedTimeStep
    /\ handleTimeStepChange(step)

SimIdle ==
  /\ sequence = <<>>
  /\ selectedTimeStep = 0
  /\ simulatedParams = Null
  /\ sent = NotSent
  /\ edits = 0

\* the component after useState
SimInit ==
  /\ sequence = [i \in 1..SequenceLength |-> InitialEntry]
  /\ selectedTimeStep = 9
  /\ simulatedParams = InitialParams
  /\ sent = NotSent
  /\ edits = 0

(***************************************************************************)
(* CorrosionRiskAssessment: getRiskFactors.  Values in tenths.             *)
(***************************************************************************)
\* the params objects getRiskFactors is applied to: values at, next to and
\* away from each threshold
RiskInputs ==
  [ph : {64, 65, 67, 68, 70},
   turbidity : {10, 100},
   tds : {3500, 3510, 4500, 4510},
   temperature : {244, 245, 259, 260, 275, 290, 291, 305, 306},
   conductivity : {7000, 7010, 8000, 8010}]

\* { message, severity }
Factor(message, severity) == [message |-> message, severity |-> severity]

\* Math.abs
Abs(x) == IF x < 0 THEN 0 - x ELSE x

\* getRiskFactors testing the medium condition of each parameter first
getRiskFactorsMediumFirst(params) ==
  LET tempDiff == Abs(params.temperature - 275)
  IN  (IF params.ph < 68
       THEN <<Factor("Moderate pH drop - Increased corrosion risk", "medium")>>
       ELSE <<>>)
      \o (IF params.tds > 3500
          THEN <<Factor("Elevated TDS level - Moderate risk", "medium")>>
          ELSE <<>>)
      \o (IF params.conductivity > 7000
          THEN <<Factor("High conductivity - Moderate risk", "medium")>>
          ELSE <<>>)
      \o (IF tempDiff > 15
          THEN <<Factor("Temperature deviation from optimal", "medium")>>
          ELSE <<>>)

\* getRiskFactors(params): the factors pushed by its four if / else if
\* statements, in order
getRiskFactors(params) ==
  LET tempDiff == Abs(params.temperature - 275)
  IN  (IF params.ph < 65
       THEN <<Factor("Severe pH drop - High corrosion risk", "high")>>
       ELSE IF params.ph < 68
       THEN <<Factor("Moderate pH drop - Increased corrosion risk", "medium")>>
       ELSE <<>>)
      \o (IF params.tds > 4500
          THEN <<Factor("Very high TDS level - High mineral content", "high")>>
          ELSE IF params.tds > 3500
          THEN <<Factor("Elevated TDS level - Moderate risk", "medium")>>
          ELSE <<>>)
      \o (IF params.conductivity > 8000
          THEN <<Factor("Very high conductivity - High corrosion risk", "high")>>
          ELSE IF params.conductivity > 7000
          THEN <<Factor("High conductivity - Moderate risk", "medium")>>
          ELSE <<>>)
      \o (IF tempDiff > 30
          THEN <<Factor("Temperature far from optimal range", "high")>>
          ELSE IF tempDiff > 15
          THEN <<Factor("Temperature deviation from optimal", "medium")>>
          ELSE <<>>)

NotReturned == [kind |-> "none"]

\* the Risk Factors list is rendered: getRiskFactors(simulatedParams)
RenderRiskFactors ==
  /\ factors = NotReturned
  /\ factors' = [kind |-> "array", items |-> getRiskFactors(riskParams)]
  /\ UNCHANGED riskParams

RiskIdle ==
  /\ riskParams = Null
  /\ factors = NotReturned

RiskInit ==
  /\ riskParams \in RiskInputs
  /\ factors = NotReturned

ViewIdle == ChartIdle /\ ExportIdle /\ SimIdle /\ RiskIdle

TabsNext ==
  \/ SetActiveTab /\ UNCHANGED <<statusVars, feedVars, viewVars>>
  \/ Tick /\ UNCHANGED <<statusVars, feedVars, viewVars>>
  \/ Simulate /\ UNCHANGED <<statusVars, feedVars, viewVars>>
  \/ Response /\ UNCHANGED <<statusVars, feedVars, viewVars>>
  \/ OrphanResponse /\ UNCHANGED <<statusVars, feedVars, viewVars>>

InitTabs == TabsInit /\ StatusIdle /\ FeedIdle /\ ViewIdle

SpecTabs == InitTabs /\ [][TabsNext]_vars

StatusNext == Classify /\ UNCHANGED <<feedVars, tabVars, viewVars>>

InitStatus == StatusInit /\ FeedIdle /\ TabsIdle /\ ViewIdle

SpecStatus == InitStatus /\ [][StatusNext]_vars

FeedNext ==
  \/ InitialValue /\ UNCHANGED <<statusVars, tabVars, viewVars>>
  \/ RemoteChange /\ UNCHANGED <<statusVars, tabVars, viewVars>>
  \/ Respond /\ UNCHANGED <<statusVars, tabVars, viewVars>>
  \/ Unmount /\ UNCHANGED <<statusVars, tabVars, viewVars>>

InitFeed == FeedInit /\ StatusIdle /\ TabsIdle /\ ViewIdle

SpecFeed == InitFeed /\ [][FeedNext]_vars

(***************************************************************************)
(* The tabbed App as a whole: the subscription and the forecast client of  *)
(* App together with the component of the active tab, followed for a store *)
(* of at most one reading and MaxTotal requests.                           *)
(***************************************************************************)
Budget == Len(requests) + Issued < MaxTotal

AppInit == FeedInit /\ variant = "tabbed" /\ TabsInit

AppNext ==
  \/ InitialValue /\ Budget /\ UNCHANGED <<statusVars, tabVars, viewVars>>
  \/ RemoteChange /\ Cardinality(store') <= 1 /\ Budget
       /\ UNCHANGED <<statusVars, tabVars, viewVars>>
  \/ Respond /\ UNCHANGED <<statusVars, tabVars, viewVars>>
  \/ SetActiveTab /\ Budget /\ UNCHANGED <<statusVars, feedVars, viewVars>>
  \/ Tick /\ Budget /\ UNCHANGED <<statusVars, feedVars, viewVars>>
  \/ Simulate /\ Budget /\ UNCHANGED <<statusVars, feedVars, viewVars>>
  \/ Response /\ UNCHANGED <<statusVars, feedVars, viewVars>>
  \/ OrphanResponse /\ UNCHANGED <<statusVars, feedVars, viewVars>>

InitApp == AppInit /\ StatusIdle /\ ViewIdle

SpecApp == InitApp /\ [][AppNext]_vars

ChartNext ==
  RenderVisualizations
    /\ UNCHANGED <<statusVars, feedVars, tabVars, exportVars, simVars,
                 riskVars>>

\* the App state DataVisualizations does not set
feedRest == <<variant, mounted, subscribed, pendingEvent, store, latestData,
              predictions, error, isLoading, requests>>

SeriesNext ==
  \/ InitialValue /\ Rerender
       /\ UNCHANGED <<statusVars, tabVars, exportVars, simVars,
                 riskVars>>
  \/ RemoteChange /\ Rerender
       /\ UNCHANGED <<statusVars, tabVars, exportVars, simVars,
                 riskVars>>
  \/ Respond /\ Rerender
       /\ UNCHANGED <<statusVars, tabVars, exportVars, simVars,
                 riskVars>>
  \/ Unmount /\ Rerender
       /\ UNCHANGED <<statusVars, tabVars, exportVars, simVars,
                 riskVars>>
  \/ mounted /\ RenderVisualizations
       /\ UNCHANGED <<statusVars, feedRest, tabVars, exportVars, simVars,
                 riskVars>>

InitSeries ==
  /\ FeedInit /\ variant = "tabbed"
  /\ StatusIdle /\ TabsIdle /\ ViewIdle

SpecSeries == InitSeries /\ [][SeriesNext]_vars

InitChart ==
  /\ ChartInit /\ StatusIdle /\ FeedIdle /\ TabsIdle
  /\ ExportIdle /\ SimIdle /\ RiskIdle

SpecChart == InitChart /\ [][ChartNext]_vars

ExportNext ==
  DownloadData
    /\ UNCHANGED <<statusVars, feedVars, tabVars, chartVars, simVars,
                 riskVars>>

InitExport ==
  /\ ExportInit /\ StatusIdle /\ FeedIdle /\ TabsIdle
  /\ ChartIdle /\ SimIdle /\ RiskIdle

SpecExport == InitExport /\ [][ExportNext]_vars

SimNext ==
  \/ ParameterChange
       /\ UNCHANGED <<statusVars, feedVars, tabVars, chartVars, exportVars,
                 riskVars>>
  \/ TimeStepChange
       /\ UNCHANGED <<statusVars, feedVars, tabVars, chartVars, exportVars,
                 riskVars>>
  \/ simulateCorrosion
       /\ UNCHANGED <<statusVars, feedVars, tabVars, chartVars, exportVars,
                 riskVars>>

InitSim ==
  /\ SimInit /\ StatusIdle /\ FeedIdle /\ TabsIdle
  /\ ChartIdle /\ ExportIdle /\ RiskIdle

SpecSim == InitSim /\ [][SimNext]_vars

RiskNext ==
  RenderRiskFactors
    /\ UNCHANGED <<statusVars, feedVars, tabVars, chartVars, exportVars,
                   simVars>>

InitRisk ==
  /\ RiskInit /\ StatusIdle /\ FeedIdle /\ TabsIdle
  /\ ChartIdle /\ ExportIdle /\ SimIdle

SpecRisk == InitRisk /\ [][RiskNext]_vars

(***************************************************************************)
(* Properties.                                                             *)
(***************************************************************************)
\* the label of the half-open pH band that contains ph
PhBand(ph) ==
  IF ph < 50 THEN "Acidic"
  ELSE IF ph < 65 THEN "Slightly Acidic"
  ELSE IF ph < 75 THEN "Neutral"
  ELSE IF ph < 90 THEN "Slightly Basic"
  ELSE "Basic"

\* C1: getPhStatus returns the label of the half-open band that contains
\* the value; 5, 6.5 and 7.5 get the label of the band that starts there.
C1_PhHalfOpenBands ==
  (param = "ph" /\ result # NoResult) => result.status = PhBand(value)

\* the response of request r is being handled with this outcome
Handled(r, outcome) ==
  /\ mounted
  /\ r \in Pending
  /\ requests'[r] = outcome

\* C2: a new /predict request cancels no pending one, and the response of
\* an older request is applied whenever it arrives, also after the response
\* of a newer one: the stored predictions / error are then those of the
\* older response.
C2_LateResponseOverwrites ==
  [][/\ Len(requests') > Len(requests) =>
          \A r \in Pending : requests'[r] = "pending"
     /\ \A r \in 1..Len(requests) :
          /\ Handled(r, "ok") => predictions' = Body(r, "ok")
          /\ Handled(r, "failed") => error' \in {GenericError, TransportError}]_vars

\* C2 witness: the response of request 1 was applied after that of request 2
C2_Witness ==
  /\ mounted
  /\ Len(requests) >= 2
  /\ requests[2] = "ok"
  /\ predictions = Body(1, "ok")

\* C3: a response body with an `error` field leaves the client in Error
\* with that message and is never stored as the bundle.
C3_ErrorBodyIsError ==
  [][\A r \in 1..Len(requests) :
       Handled(r, "errorBody") =>
         /\ error' = Body(r, "errorBody").error
         /\ predictions' # Body(r, "errorBody")]_vars

\* C4 (as stated): a transport failure sets the generic message and clears
\* the stored bundle.
C4_FailureClearsBundle ==
  [][\A r \in 1..Len(requests) :
       (variant = "tabbed" /\ Handled(r, "failed")) =>
         /\ error' = GenericError
         /\ predictions' = NoBody]_vars

\* C4 (amended): a transport failure sets the error message (the generic
\* one in the tabbed variants, the exception's in the untabbed one) and
\* leaves the stored bundle as it is.
C4_FailureKeepsBundle ==
  [][\A r \in 1..Len(requests) :
       Handled(r, "failed") =>
         /\ error' = IF variant = "tabbed" THEN GenericError ELSE TransportError
         /\ predictions' = predictions]_vars

\* C4 witness: a bundle is still stored after a transport failure
C4_Witness ==
  /\ mounted
  /\ variant = "tabbed"
  /\ error = GenericError
  /\ predictions # NoBody
  /\ \E r \in 1..Len(requests) : requests[r] = "failed"
  /\ \A r \in 1..Len(requests) : requests[r] # "errorBody"

DistinctTimestamps(S) ==
  \A c, d \in S : c # d => DateParse(c.timestamp) # DateParse(d.timestamp)

\* the listener has been called with the snapshot of the current store
Published == mounted /\ ~pendingEvent

\* C6: an update of N entries with distinct timestamps publishes a sequence
\* of N elements, strictly descending by timestamp in the tabbed variants
\* and strictly ascending in the untabbed ones.
C6_StrictOrder ==
  (Published /\ DistinctTimestamps(store)) =>
    /\ Len(sensorData) = Len(Snapshot(store))
    /\ \A i \in 1..(Len(sensorData) - 1) :
         IF variant = "tabbed"
         THEN DateParse(sensorData[i].timestamp)
                > DateParse(sensorData[i + 1].timestamp)
         ELSE DateParse(sensorData[i].timestamp)
                < DateParse(sensorData[i + 1].timestamp)

\* C6 witness: three entries with distinct timestamps were published
C6_Witness ==
  /\ Published
  /\ DistinctTimestamps(store)
  /\ Cardinality(store) = 3
  /\ Len(sensorData) = 3

\* C7: after an update with a non-empty snapshot the latest reading is the
\* element of the published sequence with the greatest timestamp, the first
\* one in the tabbed variants and the last one in the untabbed ones.
C7_LatestIsNewest ==
  sensorData # <<>> =>
    /\ latestData = IF variant = "tabbed"
                    THEN sensorData[1]
                    ELSE sensorData[Len(sensorData)]
    /\ \A i \in 1..Len(sensorData) :
         DateParse(latestData.timestamp) >= DateParse(sensorData[i].timestamp)

\* C7 witness: a sequence whose ends differ in time was published
C7_Witness ==
  /\ Len(sensorData) >= 2
  /\ sensorData[1].timestamp # sensorData[Len(sensorData)].timestamp
  /\ latestData.kind = "reading"

\* C8: a mounted App holds exactly one listener, a torn-down one none, and
\* after the teardown no step changes the reading sequence or the latest
\* reading.
C8_Unsubscribed ==
  /\ [](subscribed = IF mounted THEN 1 ELSE 0)
  /\ [][~mounted => UNCHANGED <<sensorData, latestData>>]_vars

\* C8 witness: the App is torn down, its listener is gone and the remote
\* store holds entries
C8_Witness ==
  /\ ~mounted
  /\ subscribed = 0
  /\ store # {}

\* component c issues a request in this step
Triggered(c) == Len(reqs'[c]) > Len(reqs[c])

\* C5 (as stated): every fetch trigger puts the component into Loading.
C5_TriggerEntersLoading ==
  [][\A c \in Components : Triggered(c) => comp'[c].loading]_vars

\* C5 (amended): a component is in Loading from its mount on, leaves it
\* when a poll response (or failure) is handled and does not enter it again
\* while mounted; a fetch trigger leaves `loading` as it is.
C5_LoadingOnlyOnMount ==
  [][\A c \in Components :
       /\ (~Shown(c) /\ activeTab' = c) => comp'[c].loading
       /\ (Shown(c) /\ activeTab' = c) =>
            /\ comp'[c].loading => comp[c].loading
            /\ Triggered(c) => comp'[c].loading = comp[c].loading
            /\ (comp[c].loading /\ ~comp'[c].loading) =>
                 \E i \in PendingOf(c) :
                   /\ reqs[c][i].kind = "poll"
                   /\ reqs'[c][i].state \in Outcomes]_vars

\* C5 witness: a component in Success, not loading, with a poll in flight
C5_Witness ==
  \E c \in Components :
    /\ Shown(c)
    /\ ~comp[c].loading
    /\ comp[c].error = NoError
    /\ comp[c].data # 0
    /\ \E i \in PendingOf(c) : reqs[c][i].kind = "poll"

\* C9: a component has one running timer while it is mounted and none once
\* it is torn down, whatever state it was torn down in; a torn-down
\* component issues no request.
C9_TimerCleared ==
  /\ [](\A c \in Components : timer[c] = IF Shown(c) THEN 1 ELSE 0)
  /\ [][\A c \in Components :
          (~Shown(c) /\ activeTab' # c) => ~Triggered(c)]_vars

\* C9 witness: a component torn down with a request in flight, no timer
\* left
C9_Witness ==
  \E c \in Components :
    /\ ~Shown(c)
    /\ timer[c] = 0
    /\ OrphansOf(c) # {}

Updated ==
  \/ pendingEvent /\ ~pendingEvent' /\ mounted'
  \/ store' # store /\ Published

\* C11: a /predict request is issued exactly in the steps in which a
\* subscription update publishes a non-empty reading sequence, one request
\* per such update; no other step (a response, a failure, an empty update,
\* the teardown) issues one.
C11_OneRequestPerUpdate ==
  [][/\ Len(requests') =
          Len(requests) + (IF Updated /\ sensorData' # <<>> THEN 1 ELSE 0)
     /\ Len(requests') > Len(requests) =>
          requests' = Append(requests, "pending")]_vars

\* C11 witness: the only request failed and nothing was issued after it
C11_Witness ==
  /\ mounted
  /\ sensorData # <<>>
  /\ requests = <<"failed">>

\* C15: after a subscription update the published sequence holds exactly
\* the entries of the snapshot of the store, one record per key, and no
\* record of an earlier snapshot.
C15_ExactlyTheSnapshot ==
  Published =>
    LET snapshot == Snapshot(store)
    IN  /\ Len(sensorData) = Len(snapshot)
        /\ \A j \in 1..Len(snapshot) :
             Cardinality({i \in 1..Len(sensorData) :
                            sensorData[i] = Reading(snapshot[j])}) = 1
        /\ \A i, j \in 1..Len(sensorData) :
             sensorData[i].id = sensorData[j].id => i = j

\* C15 witness: a second non-empty update published a single reading
C15_Witness ==
  /\ Published
  /\ Len(requests) = 2
  /\ Len(sensorData) = 1

\* the label of the half-open band that contains v, for the four
\* parameters other than pH
Band(p, v) ==
  CASE p = "turbidity" ->
         IF v < 10 THEN "Excellent" ELSE IF v < 50 THEN "Good"
         ELSE IF v < 100 THEN "Fair" ELSE "Poor"
    [] p = "tds" ->
         IF v < 3000 THEN "Excellent" ELSE IF v < 6000 THEN "Good"
         ELSE IF v < 9000 THEN "Fair" ELSE "Poor"
    [] p = "temperature" ->
         IF v < 200 THEN "Cold" ELSE IF v < 250 THEN "Cool"
         ELSE IF v < 300 THEN "Normal" ELSE IF v < 350 THEN "Warm"
         ELSE "Hot"
    [] p = "conductivity" ->
         IF v < 2000 THEN "Low" ELSE IF v < 8000 THEN "Normal" ELSE "High"

\* C17: the turbidity, TDS, temperature and conductivity classifiers return
\* the label of the half-open band that contains the value; a value equal
\* to a threshold gets the label of the band that starts there.
C17_HalfOpenBands ==
  (param # "ph" /\ result # NoResult) => result.status = Band(param, value)

\* the results a classifier of parameter p can return
Results(p) ==
  CASE p = "ph" ->
         {St("Acidic", "text-red-600"), St("Slightly Acidic", "text-orange-500"),
          St("Neutral", "text-green-600"), St("Slightly Basic", "text-blue-500"),
          St("Basic", "text-purple-600")}
    [] p \in {"turbidity", "tds"} ->
         {St("Excellent", "text-green-600"), St("Good", "text-blue-500"),
          St("Fair", "text-orange-500"), St("Poor", "text-red-600")}
    [] p = "temperature" ->
         {St("Cold", "text-blue-600"), St("Cool", "text-blue-600"),
          St("Normal", "text-green-600"), St("Warm", "text-orange-500"),
          St("Hot", "text-red-600")}
    [] p = "conductivity" ->
         {St("Low", "text-blue-500"), St("Normal", "text-green-600"),
          St("High", "text-red-600")}

\* C18: every classifier returns, for every input (negative and far above
\* the physical range included), one {status, color} object of its
\* parameter's fixed set, determined by the input alone.
C18_TotalAndPure ==
  result # NoResult =>
    /\ result \in Results(param)
    /\ result = getStatus(param, value)

\* C18 witness: a negative input was classified
C18_Witness ==
  /\ result # NoResult
  /\ value < 0

\* component c is mounted in this step
Mounts(c) == activeTab # c /\ activeTab' = c

\* C20: a corrosion or quality component issues one poll in the step that
\* mounts it and none for the other component; while it is mounted it has
\* one interval of its own, and the tick of that interval can issue the
\* next poll whatever became of the earlier requests of either component
\* (answered, failed or still in flight).
C20_PollsRegardless ==
  /\ [](\A c \in Components :
          Shown(c) => /\ timer[c] = 1
                      /\ Issued < MaxPolls => ENABLED Tick)
  /\ [][\A c \in Components :
          Mounts(c) =>
            /\ reqs'[c] = Append(reqs[c], Request("poll", InitialState))
            /\ \A d \in Components \ {c} : Len(reqs'[d]) = Len(reqs[d])]_vars

\* C20 witness: a tick issued a poll while the poll before it was still in
\* flight, after an earlier poll of the same instance had failed
C20_Witness ==
  \E c \in Components :
    /\ Shown(c)
    /\ \E i, j, k \in 1..Len(reqs[c]) :
         /\ i < j /\ j < k
         /\ reqs[c][i].kind = "poll" /\ reqs[c][i].state = "failed"
         /\ reqs[c][j].kind = "poll" /\ reqs[c][j].state = "pending"
         /\ reqs[c][k].kind = "poll" /\ reqs[c][k].state = "pending"

\* the response of a /predict request is a failure or carries an error
ForecastFails ==
  \E r \in Pending : mounted /\ requests'[r] \in {"failed", "errorBody"}

\* the response of a request of component c is a failure or carries an error
ComponentFails(c) ==
  \E i \in PendingOf(c) : reqs'[c][i].state \in {"failed", "errorBody"}

\* C14: a failed or error-flagged forecast request leaves the reading
\* sequence, the latest reading and the state of the corrosion and quality
\* components unchanged; a failed or error-flagged corrosion or quality
\* request leaves the reading sequence, the latest reading, the forecast
\* bundle, the forecast error and the other component's state unchanged.
C14_FailureStaysInItsSection ==
  [][/\ ForecastFails => UNCHANGED <<sensorData, latestData, comp>>
     /\ \A c \in Components :
          ComponentFails(c) =>
            /\ UNCHANGED <<sensorData, latestData, predictions, error,
                           isLoading>>
            /\ \A d \in Components \ {c} : comp'[d] = comp[d]]_vars

\* C14 witness: a forecast request and a poll of the shown component have
\* both failed, and the readings are still published
C14_Witness ==
  /\ error = GenericError
  /\ sensorData # <<>>
  /\ latestData = sensorData[1]
  /\ \E c \in Components : Shown(c) /\ comp[c].error # NoError

\* C12: cleanPredictions keeps every series of the bundle at its length;
\* at each index the normalized value is undefined exactly when the
\* bundle's value is null, and a number stays the same number at the same
\* index; the stored bundle is not modified.
C12_NormalizeKeepsPositions ==
  /\ [](clean # NotBuilt =>
          /\ DOMAIN clean.predictions = DOMAIN bundle.predictions
          /\ \A p \in DOMAIN bundle.predictions :
               /\ Len(clean.predictions[p]) = Len(bundle.predictions[p])
               /\ \A i \in 1..Len(bundle.predictions[p]) :
                    /\ clean.predictions[p][i] = Undefined
                         <=> bundle.predictions[p][i] = Null
                    /\ bundle.predictions[p][i] # Null =>
                         clean.predictions[p][i] = bundle.predictions[p][i])
  /\ [][bundle' = bundle]_vars

\* C12 witness: a bundle with all five series, a null behind a number in
\* the turbidity series, has been normalized
C12_Witness ==
  /\ clean # NotBuilt
  /\ DOMAIN bundle.predictions = Params
  /\ bundle.predictions["turbidity"] = <<Num(12), Null>>
  /\ clean.predictions["turbidity"] = <<Num(12), Undefined>>

\* {timestamps: ["t1", "t2"], predictions: {ph: [6.5, null]}}
Scenario3 ==
  [timestamps |-> <<[sec |-> 1], [sec |-> 2]>>,
   predictions |-> [p \in {"ph"} |-> <<Num(65), Null>>]]

\* C13: for the bundle with two timestamps and only the ph series
\* [6.5, null], the charting series is built without an exception and its
\* ph values are [6.5, undefined].
C13_PhOnlyBundleCharts ==
  (bundle = Scenario3 /\ predicted # NotBuilt) =>
    /\ predicted.kind = "rows"
    /\ [i \in 1..2 |-> predicted.rows[i].ph] = <<Num(65), Undefined>>

\* the header line of the CSV text
HeaderLine ==
  <<Text("Timestamp"), Comma, Text("pH"), Comma, Text("Turbidity (NTU)"),
    Comma, Text("TDS (ppm)"), Comma, Text("Temperature (°C)"), Comma,
    Text("Conductivity (μS/cm)")>>

\* the numeral of the hundredth nearest to v (v in thousandths)
Rounded(v) ==
  LET h == CHOOSE h \in {v \div 10, v \div 10 + 1} :
             10 * h - 5 < v /\ v < 10 * h + 5
  IN  Decimal(h \div 100, h % 100)

\* the line of a reading: its timestamp and its five values at two
\* decimal places, joined by commas
RowLine(r) ==
  <<Stamp(r.timestamp), Comma, Rounded(r.ph), Comma, Rounded(r.turbidity),
    Comma, Rounded(r.tds), Comma, Rounded(r.temperature), Comma,
    Rounded(r.conductivity)>>

\* the text has the header line and one line per fetched reading, with one
\* token between consecutive lines
LinesOf(text) ==
  /\ Len(text) >= 12 * Len(fetched) + 11
  /\ SubSeq(text, 1, 11) = HeaderLine
  /\ \E order \in [1..Len(fetched) -> 1..Len(fetched)] :
       /\ \A i, j \in 1..Len(fetched) : order[i] = order[j] => i = j
       /\ \A k \in 1..Len(fetched) :
            SubSeq(text, 12 * k + 1, 12 * k + 11) = RowLine(fetched[order[k]])

\* C16 as stated: the export of N readings is the header line and N row
\* lines, and every line, the last included, ends with a newline.
C16_EveryLineTerminated ==
  blob # NotBuilt =>
    /\ LinesOf(blob.text)
    /\ Len(blob.text) = 12 * (Len(fetched) + 1)
    /\ \A k \in 0..Len(fetched) : blob.text[12 * k + 12] = Newline

\* C16 amended: the export of N readings is the header line and N row
\* lines separated by single newlines; the text has N newlines and does not
\* end with one.
C16_LinesSeparated ==
  blob # NotBuilt =>
    /\ LinesOf(blob.text)
    /\ Len(blob.text) = 12 * Len(fetched) + 11
    /\ \A k \in 1..Len(fetched) : blob.text[12 * k] = Newline
    /\ blob.text[Len(blob.text)] # Newline

\* C16 witness: two readings were exported, the older one stored first
C16_Witness ==
  /\ blob # NotBuilt
  /\ Len(fetched) = 2
  /\ TsBefore(fetched[1].timestamp, fetched[2].timestamp)
  /\ fetched[1].conductivity = 500996

\* C19: the simulated sequence always has 10 entries, each with the five
\* parameters and a timestamp, the selected time step is one of 0..9, and
\* every body sent to /simulate-corrosion is such a sequence of 10 entries.
C19_TenEntries ==
  /\ Len(sequence) = 10
  /\ \A i \in 1..Len(sequence) :
       DOMAIN sequence[i] = Params \cup {"timestamp"}
  /\ selectedTimeStep \in 0..9
  /\ sent # NotSent =>
       /\ Len(sent.body) = 10
       /\ \A i \in 1..Len(sent.body) :
            DOMAIN sent.body[i] = Params \cup {"timestamp"}

\* C19 witness: a sequence edited at two time steps has been sent
C19_Witness ==
  /\ sent # NotSent
  /\ sent.body = sequence
  /\ selectedTimeStep # 9
  /\ Cardinality({i \in 1..Len(sequence) : sequence[i] # InitialEntry}) = 2

\* request i of the mounted corrosion component, of this kind, is answered
\* with this outcome in this step
Answered(i, kind, outcome) ==
  /\ i \in PendingOf("corrosion")
  /\ reqs["corrosion"][i].kind = kind
  /\ reqs'["corrosion"][i].state = outcome

\* C21: a failed simulate-corrosion request sets the error state the
\* polled fetch uses, so that the error view replaces the polled risk data,
\* which stays stored; a successful simulation leaves the error as it is;
\* and within one instance the error is cleared by a successful poll only.
C21_SimulationSharesError ==
  [][/\ \A i \in PendingOf("corrosion") :
          /\ \A o \in {"failed", "errorBody"} :
               Answered(i, "simulate", o) =>
                 /\ comp'["corrosion"].error = Message(o)
                 /\ ~comp'["corrosion"].loading
                 /\ comp'["corrosion"].data = comp["corrosion"].data
          /\ Answered(i, "simulate", "ok") =>
               comp'["corrosion"].error = comp["corrosion"].error
     /\ (/\ activeTab' = activeTab
         /\ comp["corrosion"].error # NoError
         /\ comp'["corrosion"].error = NoError) =>
          \E i \in PendingOf("corrosion") : Answered(i, "poll", "ok")]_vars

\* C21 witness: every poll succeeded, a simulation failed, and the error
\* view hides the polled risk data
C21_Witness ==
  /\ Shown("corrosion")
  /\ comp["corrosion"].error # NoError
  /\ ~comp["corrosion"].loading
  /\ comp["corrosion"].data # 0
  /\ \A i \in 1..Len(reqs["corrosion"]) :
       reqs["corrosion"][i].kind = "poll" =>
         reqs["corrosion"][i].state \in {"ok", "ignored"}

\* C22: in the variant that tracks isLoading, isLoading is true whenever a
\* /predict request of the mounted App is in flight, also when requests
\* overlap.
C22_LoadingWhileInFlight ==
  (variant = "untabbed" /\ mounted /\ Pending # {}) => isLoading

\* C23: an edit changes the entry of the selected time step only, and of
\* that entry only one parameter field and the timestamp; the other nine
\* entries keep every field value.
C23_EditTouchesSelectedOnly ==
  [][edits' # edits =>
       /\ Len(sequence') = Len(sequence)
       /\ \A i \in 1..Len(sequence) :
            i # selectedTimeStep + 1 => sequence'[i] = sequence[i]
       /\ \E p \in Params :
            \A k \in Params \ {p} :
              sequence'[selectedTimeStep + 1][k]
                = sequence[selectedTimeStep + 1][k]]_vars

\* C23 witness: the first entry was edited and the nine behind it are
\* still the initial entry
C23_Witness ==
  /\ edits > 0
  /\ sequence[1] # InitialEntry
  /\ \A i \in 2..Len(sequence) : sequence[i] = InitialEntry

\* C24: the five parameter values of simulatedParams are those of the
\* sequence entry at the selected time step.
C24_ParamsShowSelectedEntry ==
  \A p \in Params :
    simulatedParams[p] = sequence[selectedTimeStep + 1][p]

\* C24 witness: the last entry was edited, then the first was selected and
\* edited
C24_Witness ==
  /\ selectedTimeStep = 0
  /\ sequence[1] # InitialEntry
  /\ sequence[Len(sequence)] # InitialEntry
  /\ sequence[Len(sequence)].timestamp < sequence[1].timestamp

\* the simulate-corrosion requests of the mounted instance that are in
\* flight
SimulationsPending ==
  {i \in PendingOf("corrosion") : reqs["corrosion"][i].kind = "simulate"}

\* the simulate-corrosion requests of torn-down instances that are in
\* flight
SimulationsOrphaned ==
  {i \in OrphansOf("corrosion") : reqs["corrosion"][i].kind = "simulate"}

\* C25 as stated: at any time at most one simulate-corrosion request is in
\* flight, simulationLoading is true exactly while one is, and the simulate
\* action is disabled meanwhile.
C25_OneSimulationInFlight ==
  /\ Cardinality(SimulationsPending \cup SimulationsOrphaned) <= 1
  /\ comp["corrosion"].simulationLoading
       <=> SimulationsPending \cup SimulationsOrphaned # {}
  /\ comp["corrosion"].simulationLoading => ~CanSimulate("corrosion")

\* C25 amended: at most one simulate-corrosion request of the mounted
\* instance is in flight, simulationLoading is true exactly while one is,
\* and the simulate action is disabled meanwhile; requests of torn-down
\* instances may be in flight besides.
C25_OneSimulationPerInstance ==
  /\ Cardinality(SimulationsPending) <= 1
  /\ comp["corrosion"].simulationLoading <=> SimulationsPending # {}
  /\ comp["corrosion"].simulationLoading => ~CanSimulate("corrosion")

\* C25 witness: the simulation of a torn-down instance and the simulation
\* of the instance mounted after it are in flight together
C25_Witness ==
  /\ comp["corrosion"].simulationLoading
  /\ SimulationsPending # {}
  /\ SimulationsOrphaned # {}

\* C26: the polling timer of a component runs exactly while its tab is the
\* active one, so at most one of the two timers runs and none runs on the
\* other tabs; every switch to the corrosion or quality tab yields a new
\* instance: initial state with loading true, one request issued at once,
\* one new timer.
C26_OneTimerFreshInstance ==
  /\ [](/\ timer["corrosion"] + timer["quality"] <= 1
        /\ \A c \in Components : timer[c] = IF activeTab = c THEN 1 ELSE 0
        /\ \A c \in Components : ~Shown(c) => comp[c] = InitialState)
  /\ [][\A c \in Components :
          Mounts(c) =>
            /\ comp'[c] = InitialState
            /\ comp'[c].loading
            /\ timer[c] = 0 /\ timer'[c] = 1
            /\ Len(reqs'[c]) = Len(reqs[c]) + 1
            /\ reqs'[c][Len(reqs'[c])].state = "pending"]_vars

\* C26 witness: the corrosion tab was entered a second time; the instance
\* is loading again although the poll of the first instance had succeeded
C26_Witness ==
  /\ Shown("corrosion")
  /\ comp["corrosion"].loading
  /\ comp["corrosion"].data = 0
  /\ Len(reqs["corrosion"]) >= 2
  /\ reqs["corrosion"][1].state = "ok"

\* C27: a subscription update with an empty snapshot publishes the empty
\* sequence and an undefined latest reading, issues no /predict request,
\* and leaves the stored bundle and the error as they are.
C27_EmptySnapshot ==
  [][(Updated /\ Snapshot(store') = <<>>) =>
       /\ sensorData' = <<>>
       /\ latestData' = Undefined
       /\ requests' = requests
       /\ predictions' = predictions
       /\ error' = error]_vars

\* C27 witness: the last reading was removed after a bundle had been
\* stored; the bundle is still there and the latest reading is gone
C27_Witness ==
  /\ Published
  /\ store = {}
  /\ sensorData = <<>>
  /\ latestData = Undefined
  /\ predictions # NoBody

\* a sequence back to front
Reverse(data) == [i \in 1..Len(data) |-> data[Len(data) + 1 - i]]

\* C28: in the descending variant, building the chart series leaves the
\* published sequence and the latest reading as they are; the chart series
\* is, for distinct timestamps, the published sequence back to front.
C28_ChartSeriesIsReverseCopy ==
  [][(realData = NotBuilt /\ realData' # NotBuilt) =>
       /\ sensorData' = sensorData
       /\ latestData' = latestData
       /\ DistinctTimestamps(store) =>
            realData'.rows = Reverse(sensorData)]_vars

\* C28 witness: the chart series of three readings with distinct
\* timestamps is built; the newest is still the first of the published
\* sequence and the last of the chart series
C28_Witness ==
  /\ realData # NotBuilt
  /\ Len(sensorData) = 3
  /\ DistinctTimestamps(store)
  /\ latestData = sensorData[1]
  /\ realData.rows[3] = sensorData[1]

\* the severity the claim gives parameter p for the values of riskParams
Level(p) ==
  CASE p = "ph" ->
         IF riskParams.ph < 65 THEN "high"
         ELSE IF riskParams.ph < 68 THEN "medium" ELSE "none"
    [] p = "tds" ->
         IF riskParams.tds > 4500 THEN "high"
         ELSE IF riskParams.tds > 3500 THEN "medium" ELSE "none"
    [] p = "conductivity" ->
         IF riskParams.conductivity > 8000 THEN "high"
         ELSE IF riskParams.conductivity > 7000 THEN "medium" ELSE "none"
    [] p = "temperature" ->
         IF riskParams.temperature - 275 > 30
            \/ 275 - riskParams.temperature > 30 THEN "high"
         ELSE IF riskParams.temperature - 275 > 15
                 \/ 275 - riskParams.temperature > 15 THEN "medium"
         ELSE "none"
    [] p = "turbidity" -> "none"

\* the messages that name parameter p
MessagesOf(p) ==
  CASE p = "ph" -> {"Severe pH drop - High corrosion risk",
                    "Moderate pH drop - Increased corrosion risk"}
    [] p = "tds" -> {"Very high TDS level - High mineral content",
                     "Elevated TDS level - Moderate risk"}
    [] p = "conductivity" -> {"Very high conductivity - High corrosion risk",
                              "High conductivity - Moderate risk"}
    [] p = "temperature" -> {"Temperature far from optimal range",
                             "Temperature deviation from optimal"}

HasFactor(p) == Level(p) # "none"

\* C29: getRiskFactors returns, in the order pH, TDS, conductivity,
\* temperature, one factor for each of these parameters whose high or
\* medium condition holds, with the severity of the first condition that
\* holds, and nothing else: at most 4 factors, none for turbidity, and the
\* empty list exactly when no condition holds.
C29_RiskFactors ==
  factors # NotReturned =>
    LET want == SelectSeq(<<"ph", "tds", "conductivity", "temperature">>,
                          HasFactor)
    IN  /\ Len(factors.items) = Len(want)
        /\ Len(factors.items) <= 4
        /\ \A i \in 1..Len(want) :
             /\ factors.items[i].severity = Level(want[i])
             /\ factors.items[i].message \in MessagesOf(want[i])
        /\ factors.items = <<>> <=>
             \A p \in Params : Level(p) = "none"

\* C29 witness: pH and temperature meet their high condition, TDS its
\* medium one and conductivity none
C29_Witness ==
  /\ factors # NotReturned
  /\ riskParams.ph = 64
  /\ riskParams.tds = 3510
  /\ riskParams.conductivity = 7000
  /\ riskParams.temperature = 244
  /\ Len(factors.items) = 3

====
